---- MODULE Spec2Model ----
(***************************************************************************)
(* Model of the TUI test server (src/server.py): the session registry      *)
(* `sessions`, the ScreenSession objects (a pexpect child process plus,    *)
(* in buffer mode, a pyte screen) and the tool handlers that operate on    *)
(* them.  The child process is an independently scheduled process; its     *)
(* steps interleave with the steps of a handler wherever the handler       *)
(* sleeps or waits on the pty.                                             *)
(***************************************************************************)
EXTENDS Integers, Sequences, FiniteSets, TLC

VARIABLES
    sessions,   \* the registry dict, in insertion order: <<[id, session], ...>>
    orphans,    \* child processes left running with no ScreenSession holding them
    pc,         \* the handler in progress, its locals and its position, or Idle
    result,     \* what the last finished handler returned
    history     \* per session id, what the caller has seen happen (no program state)

vars == <<sessions, orphans, pc, result, history>>

----------------------------------------------------------------------------
(* Bounds of the model *)

\* characters the children together put on their ptys (own output and echo)
\* when one session id is in use
MaxEmit == 2
\* the same when two session ids are in use
MaxEmitTwo == 1

(* Program constants.  The two read sizes are scaled down, so that "more    *)
(* pending output than one read returns" occurs within MaxEmit.            *)

\* size of the read in _update_buffer (8192 in the source)
ReadSize == 1
\* pexpect's spawn.maxread, the size of one read of expect() (2000)
MaxRead == 1
DefaultWidth == 80
DefaultHeight == 24

\* session identifiers a caller uses
Ids == {"default", "s2"}
\* characters a child prints and a caller types
Chars == {"a", "b"}
\* the mode argument: the two documented values and one that is neither
Modes == {"stream", "buffer", "raw"}
\* commands: one that pexpect can start, one it cannot
Commands == {"app", "missing"}

----------------------------------------------------------------------------
(* Text helpers *)

Min(a, b) == IF a < b THEN a ELSE b
Max(a, b) == IF a > b THEN a ELSE b

Take(s, n) == SubSeq(s, 1, Min(n, Len(s)))
Drop(s, n) == SubSeq(s, Min(n, Len(s)) + 1, Len(s))

\* all sequences over S of length lo..hi
SeqsOf(S, lo, hi) == UNION {[1..n -> S] : n \in lo..hi}

\* re.search of a literal pattern: 1-based start of the leftmost occurrence
\* of pat in s, 0 when there is none
Find(pat, s) ==
    LET hits == {i \in 1..(Len(s) - Len(pat) + 1) :
                    SubSeq(s, i, i + Len(pat) - 1) = pat}
    IN IF hits = {} THEN 0 ELSE CHOOSE i \in hits : \A j \in hits : i <= j

\* Python's `text in output`
Contains(text, s) == Find(text, s) # 0

IsPrefix(s, t) == Len(s) <= Len(t) /\ SubSeq(t, 1, Len(s)) = s

\* the escape sequences a child may print, each one token
EscapeTokens == {"\\e[m"}

\* ANSI_ESCAPE.sub('', output)
StripAnsi(s) == SelectSeq(s, LAMBDA c : c \notin EscapeTokens)

Whitespace == {" ", "\n"}

RECURSIVE RStrip(_)
RStrip(s) ==
    IF s # <<>> /\ s[Len(s)] \in Whitespace
    THEN RStrip(SubSeq(s, 1, Len(s) - 1)) ELSE s

RECURSIVE LStrip(_)
LStrip(s) == IF s # <<>> /\ Head(s) \in Whitespace THEN LStrip(Tail(s)) ELSE s

\* str.strip()
Strip(s) == LStrip(RStrip(s))

RECURSIVE JoinLines(_)
\* "\n".join(lines)
JoinLines(lines) ==
    IF lines = <<>> THEN <<>>
    ELSE IF Len(lines) = 1 THEN lines[1]
    ELSE lines[1] \o <<"\n">> \o JoinLines(Tail(lines))

----------------------------------------------------------------------------
(* The pyte screen.  rows[y+1] is the dict screen.buffer[y]: the cells     *)
(* written so far, as <<column, data>> pairs in insertion order.  cursor   *)
(* columns and rows are 0-based as in pyte.                                *)

\* pyte.Screen(width, height)
NewScreen(width, height) ==
    [columns |-> width, lines |-> height,
     rows |-> [y \in 1..height |-> <<>>],
     x |-> 0, y |-> 0]

NoScreen == [columns |-> 0, lines |-> 0, rows |-> <<>>, x |-> 0, y |-> 0]

\* line[x] = char on a dict: an existing key keeps its place
SetCell(row, col, ch) ==
    IF \E k \in 1..Len(row) : row[k][1] = col
    THEN [k \in 1..Len(row) |-> IF row[k][1] = col THEN <<col, ch>> ELSE row[k]]
    ELSE Append(row, <<col, ch>>)

\* Screen.index(): at the bottom line the lines move up and the bottom one
\* is dropped, otherwise the cursor moves down
Index(scr) ==
    IF scr.y = scr.lines - 1
    THEN [scr EXCEPT !.rows = [r \in 1..scr.lines |->
                                  IF r < scr.lines THEN scr.rows[r + 1] ELSE <<>>]]
    ELSE [scr EXCEPT !.y = scr.y + 1]

\* Screen.draw() of one printable character, auto-wrap mode on
Draw(scr, ch) ==
    LET at == IF scr.x = scr.columns
              THEN [Index(scr) EXCEPT !.x = 0]
              ELSE scr
    IN [at EXCEPT !.rows[at.y + 1] = SetCell(at.rows[at.y + 1], at.x, ch),
                  !.x = Min(at.x + 1, at.columns)]

\* one token of output through pyte.Stream: escape sequences without a
\* visible effect leave the screen as it is
FeedChar(scr, ch) == IF ch \in EscapeTokens THEN scr ELSE Draw(scr, ch)

RECURSIVE Feed(_, _)
\* pyte.Stream.feed(output)
Feed(scr, output) ==
    IF output = <<>> THEN scr
    ELSE Feed(FeedChar(scr, Head(output)), Tail(output))

\* row.get(col): the data of a written cell, " " for one never written
CellData(row, col) ==
    IF \E k \in 1..Len(row) : row[k][1] = col
    THEN (CHOOSE p \in {row[k] : k \in 1..Len(row)} : p[1] = col)[2]
    ELSE " "

\* one line of screen.display, right-stripped; only the written cells can
\* hold anything but a blank
DisplayLine(scr, r) ==
    LET row == scr.rows[r]
        last == IF row = <<>> THEN 0
                ELSE 1 + CHOOSE m \in {row[k][1] : k \in 1..Len(row)} :
                            \A k \in 1..Len(row) : row[k][1] <= m
    IN RStrip([c \in 1..last |-> CellData(row, c - 1)])

\* "\n".join(line.rstrip() for line in self.screen.display)
Display(scr) == JoinLines([r \in 1..scr.lines |-> DisplayLine(scr, r)])

----------------------------------------------------------------------------
(* ScreenSession objects and the registry *)

Idle == [op |-> "idle"]

\* the value of result while a handler that takes more than one step runs
Running == [op |-> "running"]

\* one field of dimensions.split('x'): a decimal numeral, or text int() rejects
Num(n) == [numeral |-> TRUE, val |-> n]
Junk == [numeral |-> FALSE, val |-> 0]

\* the dimensions argument, already split at 'x'; <<>> is None or ""
DimensionInputs ==
    {<<>>, <<Num(1), Num(2)>>, <<Num(0), Num(2)>>, <<Num(2)>>, <<Num(2), Junk>>}

\* launch_tui's "Parse dimensions" block
ParseDimensions(dimensions) ==
    IF dimensions = <<>>
    THEN [ok |-> TRUE, width |-> DefaultWidth, height |-> DefaultHeight]
    ELSE IF Len(dimensions) = 2 /\ dimensions[1].numeral /\ dimensions[2].numeral
    THEN [ok |-> TRUE, width |-> dimensions[1].val, height |-> dimensions[2].val]
    ELSE [ok |-> FALSE, width |-> 0, height |-> 0]

\* pexpect.spawn(command, ...) raises for a command it cannot start
Spawnable(command) == command = "app"

\* ScreenSession.__init__ up to its first _update_buffer.  emitted, fed and
\* seen are history: what the child has put on the pty, what went through
\* pyte, what expect() has read.
NewSession(dims, mode) ==
    [mode |-> mode, dimensions |-> dims, closed |-> FALSE, alive |-> TRUE,
     inq |-> <<>>, pending |-> <<>>, buffer |-> <<>>, before |-> <<>>,
     screen |-> IF mode = "buffer" THEN NewScreen(dims[1], dims[2]) ELSE NoScreen,
     emitted |-> <<>>, fed |-> <<>>, seen |-> <<>>]

\* a close() that leaves the child and its pty as they are
CloseProcessLeavesOpen(o) == o

\* a close() that ends the child and keeps the pty
CloseProcessKeepsPty(o) == [o EXCEPT !.alive = FALSE]

\* ScreenSession.close(): process.close() ends the child and releases the pty
CloseProcess(o) == [o EXCEPT !.closed = TRUE, !.alive = FALSE, !.inq = <<>>, !.pending = <<>>]

\* the last reference to a session goes away: a child that was not closed
\* stays behind
Dropped(o) == IF o.closed THEN 0 ELSE 1

\* ScreenSession._update_buffer: one read of at most ReadSize characters,
\* fed to pyte; nothing to read (TIMEOUT) and a finished child (EOF) pass
UpdateBuffer(o) ==
    IF o.mode # "buffer" THEN o
    ELSE LET output == Take(o.pending, ReadSize)
         IN [o EXCEPT !.pending = Drop(o.pending, ReadSize),
                      !.screen = Feed(o.screen, output),
                      !.fed = o.fed \o output]

\* session_id in sessions
Has(id) == \E k \in 1..Len(sessions) : sessions[k].id = id

\* sessions[session_id]
Get(id) == (CHOOSE e \in {sessions[k] : k \in 1..Len(sessions)} : e.id = id).session

\* a removal that leaves the registry as it is
DelNothing(reg, id) == reg

\* a removal that empties the registry
DelAll(reg, id) == <<>>

\* del sessions[session_id]
Del(reg, id) == SelectSeq(reg, LAMBDA e : e.id # id)

\* an assignment that puts the entry in front of all others
PutFirst(reg, id, session) ==
    <<[id |-> id, session |-> session]>> \o SelectSeq(reg, LAMBDA e : e.id # id)

\* sessions[session_id] = session: a key already there keeps its place
Put(reg, id, session) ==
    IF \E k \in 1..Len(reg) : reg[k].id = id
    THEN [k \in 1..Len(reg) |->
            IF reg[k].id = id THEN [id |-> id, session |-> session] ELSE reg[k]]
    ELSE Append(reg, [id |-> id, session |-> session])

\* what the caller has seen of a session id: whether its last session was
\* closed by close_session, and the text the last stream capture of its
\* session gave with the control codes included
NoHistory == [closed |-> FALSE, captured |-> <<>>]

\* a return that reports success for an id the registry does not have
NotFoundAccepted(op, id) == [op |-> op, id |-> id, status |-> "ok"]

\* the "No active session found" return
NotFound(op, id) == [op |-> op, id |-> id, status |-> "not_found"]

\* the ScreenSession objects alive in the server: the registered ones, and
\* the one launch_tui is constructing
Objects ==
    [k \in 1..Len(sessions) |-> sessions[k].session]
        \o (IF pc.op = "launch_tui" THEN <<pc.session>> ELSE <<>>)

RECURSIVE SumLen(_)
SumLen(objs) ==
    IF objs = <<>> THEN 0
    ELSE Len(Head(objs).emitted) + Len(Head(objs).inq) + SumLen(Tail(objs))

\* characters put on the ptys, or typed and still to be echoed
Produced == SumLen(Objects)

----------------------------------------------------------------------------
(* The child processes.  Child k is the one of Objects[k]. *)

\* a step of child k at which its session falls out of the registry
ChildStepUnregisters(k, o2) ==
    /\ sessions' = SelectSeq(sessions, LAMBDA e : e.session # Objects[k])
    /\ UNCHANGED <<orphans, pc, result, history>>

\* the step of child k that takes its session from o to o2
ChildStep(k, o2) ==
    /\ IF k <= Len(sessions)
       THEN sessions' = [sessions EXCEPT ![k].session = o2] /\ UNCHANGED pc
       ELSE pc' = [pc EXCEPT !.session = o2] /\ UNCHANGED sessions
    /\ UNCHANGED <<orphans, result, history>>

\* the child prints one character
ChildEmit(k, c) ==
    /\ Objects[k].alive
    /\ ChildStep(k, [Objects[k] EXCEPT !.pending = Append(@, c),
                                       !.emitted = Append(@, c)])

\* control characters, as the tokens chr(1) .. chr(26)
CtrlChars == <<"^A", "^B", "^C", "^D", "^E", "^F", "^G", "^H", "^I", "^J",
               "^K", "^L", "^M", "^N", "^O", "^P", "^Q", "^R", "^S", "^T",
               "^U", "^V", "^W", "^X", "^Y", "^Z">>

IsCtrl(c) == \E n \in 1..Len(CtrlChars) : CtrlChars[n] = c

\* the child (or its terminal) takes one typed character and echoes it; a
\* control character is taken without echo
ChildEcho(k) ==
    /\ Objects[k].alive
    /\ Objects[k].inq # <<>>
    /\ LET c == Head(Objects[k].inq)
       IN ChildStep(k, [Objects[k] EXCEPT
                          !.inq = Tail(@),
                          !.pending = IF IsCtrl(c) THEN @ ELSE Append(@, c),
                          !.emitted = IF IsCtrl(c) THEN @ ELSE Append(@, c)])

\* the child terminates; what it printed stays readable
ChildExit(k) ==
    /\ Objects[k].alive
    /\ ChildStep(k, [Objects[k] EXCEPT !.alive = FALSE, !.inq = <<>>])

----------------------------------------------------------------------------
(* launch_tui *)

\* launch_tui up to the read in the constructor; a session of another mode
\* than buffer is registered at once
launch_tui(command, id, dimensions, mode) ==
    /\ pc = Idle
    /\ LET parsed == ParseDimensions(dimensions)
           \* "Close existing session if it exists"
           left == IF Has(id) THEN Dropped(CloseProcess(Get(id))) ELSE 0
           session == NewSession(<<parsed.width, parsed.height>>, mode)
       IN IF ~parsed.ok
          THEN /\ result' = [op |-> "launch_tui", id |-> id, status |-> "failed",
                             error |-> "ValueError"]
               /\ UNCHANGED <<sessions, orphans, pc, history>>
          ELSE IF ~Spawnable(command)
          THEN /\ sessions' = Del(sessions, id)
               /\ orphans' = orphans + left
               /\ result' = [op |-> "launch_tui", id |-> id, status |-> "failed",
                             error |-> "ExceptionPexpect", replaced |-> Has(id)]
               /\ UNCHANGED <<pc, history>>
          ELSE \* a pyte screen without cells is outside this model
               /\ mode = "buffer" => parsed.width >= 1 /\ parsed.height >= 1
               /\ orphans' = orphans + left
               /\ history' = [history EXCEPT ![id] = NoHistory]
               /\ IF mode = "buffer"
                  THEN /\ sessions' = Del(sessions, id)
                       /\ pc' = [op |-> "launch_tui", id |-> id, session |-> session,
                                 replaced |-> Has(id)]
                       /\ result' = Running
                  ELSE /\ sessions' = Put(Del(sessions, id), id, session)
                       /\ result' = [op |-> "launch_tui", id |-> id, status |-> "ok",
                                     replaced |-> Has(id)]
                       /\ UNCHANGED pc

\* the rest of a buffer-mode launch: the constructor's _update_buffer, then
\* sessions[session_id] = session
launch_tui_register ==
    /\ pc.op = "launch_tui"
    /\ sessions' = Put(sessions, pc.id, UpdateBuffer(pc.session))
    /\ result' = [op |-> "launch_tui", id |-> pc.id, status |-> "ok",
                  replaced |-> pc.replaced]
    /\ pc' = Idle
    /\ UNCHANGED <<orphans, history>>

----------------------------------------------------------------------------
(* close_session, list_sessions *)

close_session(id) ==
    /\ pc = Idle
    /\ IF ~Has(id)
       THEN /\ result' = NotFound("close_session", id)
            /\ UNCHANGED <<sessions, orphans, pc, history>>
       ELSE /\ orphans' = orphans + Dropped(CloseProcess(Get(id)))
            /\ sessions' = Del(sessions, id)
            /\ result' = [op |-> "close_session", id |-> id, status |-> "ok"]
            /\ history' = [history EXCEPT ![id].closed = TRUE]
            /\ UNCHANGED pc

list_sessions ==
    /\ pc = Idle
    /\ result' = [op |-> "list_sessions", status |-> "ok",
                  listing |-> [k \in 1..Len(sessions) |->
                                 <<sessions[k].id, sessions[k].session.mode>>]]
    /\ UNCHANGED <<sessions, orphans, pc, history>>

----------------------------------------------------------------------------
(* send_keys, send_ctrl *)

\* the "Buffer mode required ... is in stream mode." return: the message
\* names the mode with the literal text "stream"
ModeError(op, id) == [op |-> op, id |-> id, status |-> "mode_error", named |-> "stream"]

\* a handler calling ScreenSession.send(data): process.send, then (after
\* the sleep, in send_drain) _update_buffer in buffer mode.  Writing to a
\* child that has exited may raise or be accepted by the pty.
SessionSend(op, id, data) ==
    LET o == Get(id)
    IN /\ UNCHANGED <<orphans, history>>
       /\ \E raises \in (IF o.alive THEN {FALSE} ELSE {FALSE, TRUE}) :
            IF raises
            THEN /\ result' = [op |-> op, id |-> id, status |-> "failed",
                               error |-> "OSError"]
                 /\ UNCHANGED <<sessions, pc>>
            ELSE /\ sessions' = Put(sessions, id,
                                    [o EXCEPT !.inq = IF o.alive THEN @ \o data ELSE @])
                 /\ IF o.mode = "buffer"
                    THEN /\ pc' = [op |-> op, id |-> id, data |-> data]
                         /\ result' = Running
                    ELSE /\ result' = [op |-> op, id |-> id, status |-> "ok",
                                       data |-> data]
                         /\ UNCHANGED pc

\* the keys argument
KeyInputs(chars) == {<<c>> : c \in chars}

send_keys(keys, id) ==
    /\ pc = Idle
    /\ IF ~Has(id)
       THEN /\ result' = NotFound("send_keys", id)
            /\ UNCHANGED <<sessions, orphans, pc, history>>
       ELSE SessionSend("send_keys", id, keys)

\* ScreenSession.send after its sleep: the drain of a buffer-mode session
send_drain ==
    /\ pc.op \in {"send_keys", "send_ctrl"}
    /\ sessions' = Put(sessions, pc.id, UpdateBuffer(Get(pc.id)))
    /\ result' = [op |-> pc.op, id |-> pc.id, status |-> "ok", data |-> pc.data]
    /\ pc' = Idle
    /\ UNCHANGED <<orphans, history>>

LowerCase == <<"a", "b", "c", "d", "e", "f", "g", "h", "i", "j", "k", "l", "m",
               "n", "o", "p", "q", "r", "s", "t", "u", "v", "w", "x", "y", "z">>
UpperCase == <<"A", "B", "C", "D", "E", "F", "G", "H", "I", "J", "K", "L", "M",
               "N", "O", "P", "Q", "R", "S", "T", "U", "V", "W", "X", "Y", "Z">>

\* ord() of the characters the model types
Ord(ch) ==
    IF \E n \in 1..26 : LowerCase[n] = ch
    THEN 96 + CHOOSE n \in 1..26 : LowerCase[n] = ch
    ELSE IF \E n \in 1..26 : UpperCase[n] = ch
    THEN 64 + CHOOSE n \in 1..26 : UpperCase[n] = ch
    ELSE 33

\* str.lower() of one character
Lower(ch) ==
    IF \E n \in 1..26 : UpperCase[n] = ch
    THEN LowerCase[CHOOSE n \in 1..26 : UpperCase[n] = ch]
    ELSE ch

\* the key argument of send_ctrl: letters of either case, a character before
\* 'a' in the code table, the empty string and a two-character string
CtrlKeyInputs == {<<"c">>, <<"Z">>, <<"!">>, <<>>, <<"c", "d">>}

\* a code that counts the letters from 0
CtrlCodeFromZero(key) == Ord(Lower(key[1])) - 97

\* ord(key.lower()) - ord('a') + 1, for a one-character key
CtrlCode(key) == Ord(Lower(key[1])) - 97 + 1

send_ctrl(key, id) ==
    /\ pc = Idle
    /\ IF ~Has(id)
       THEN /\ result' = NotFound("send_ctrl", id)
            /\ UNCHANGED <<sessions, orphans, pc, history>>
       ELSE IF Len(key) # 1
       THEN /\ result' = [op |-> "send_ctrl", id |-> id, status |-> "failed",
                          error |-> "TypeError"]
            /\ UNCHANGED <<sessions, orphans, pc, history>>
       ELSE IF CtrlCode(key) < 0      \* chr() of a negative number
       THEN /\ result' = [op |-> "send_ctrl", id |-> id, status |-> "failed",
                          error |-> "ValueError"]
            /\ UNCHANGED <<sessions, orphans, pc, history>>
       ELSE SessionSend("send_ctrl", id, <<CtrlChars[CtrlCode(key)]>>)

----------------------------------------------------------------------------
(* capture_screen, assert_contains *)

\* ScreenSession.get_stream_output
GetStreamOutput(o, include_ansi) ==
    IF include_ansi THEN o.before ELSE StripAnsi(o.before)

\* ScreenSession.get_buffer_display after its drain
GetBufferDisplay(o) == Display(UpdateBuffer(o).screen)

\* use_buffer: None, True or False
UseBufferInputs == {"None", "True", "False"}

\* the "Determine which mode to use" block
WantsBuffer(o, use_buffer) ==
    /\ (IF use_buffer = "None" THEN o.mode = "buffer" ELSE use_buffer = "True")
    /\ o.mode = "buffer"

capture_screen(id, include_ansi, use_buffer) ==
    /\ pc = Idle
    /\ UNCHANGED <<orphans, pc>>
    /\ IF ~Has(id)
       THEN /\ result' = NotFound("capture_screen", id)
            /\ UNCHANGED <<sessions, history>>
       ELSE IF WantsBuffer(Get(id), use_buffer)
       THEN LET \* this call follows a buffer capture of the session with no
                \* call and no output of the child between the two
                again == /\ result.op = "capture_screen" /\ result.status = "ok"
                         /\ result.id = id /\ result.label = "buffer"
                         /\ result.at = Len(Get(id).emitted)
            IN /\ sessions' = Put(sessions, id, UpdateBuffer(Get(id)))
               /\ result' = [op |-> "capture_screen", id |-> id, status |-> "ok",
                             label |-> "buffer", output |-> GetBufferDisplay(Get(id)),
                             at |-> Len(Get(id).emitted), again |-> again,
                             previous |-> IF again THEN result.output ELSE <<>>]
               /\ UNCHANGED history
       ELSE /\ result' = [op |-> "capture_screen", id |-> id, status |-> "ok",
                          label |-> "stream",
                          output |-> GetStreamOutput(Get(id), include_ansi),
                          include_ansi |-> include_ansi,
                          earlier |-> history[id].captured]
            /\ history' = IF include_ansi
                          THEN [history EXCEPT ![id].captured = Get(id).before]
                          ELSE history
            /\ UNCHANGED sessions

assert_contains(text, id, use_buffer) ==
    /\ pc = Idle
    /\ UNCHANGED <<orphans, pc, history>>
    /\ IF ~Has(id)
       THEN /\ result' = NotFound("assert_contains", id)
            /\ UNCHANGED sessions
       ELSE IF WantsBuffer(Get(id), use_buffer)
       THEN /\ sessions' = Put(sessions, id, UpdateBuffer(Get(id)))
            /\ result' = [op |-> "assert_contains", id |-> id, status |-> "ok",
                          passed |-> Contains(text, GetBufferDisplay(Get(id)))]
       ELSE /\ result' = [op |-> "assert_contains", id |-> id, status |-> "ok",
                          passed |-> Contains(text, GetStreamOutput(Get(id), FALSE))]
            /\ UNCHANGED sessions

----------------------------------------------------------------------------
(* expect_text: process.expect([pattern, TIMEOUT, EOF]), then in buffer    *)
(* mode _update_buffer.  expect() searches what it has buffered, then      *)
(* reads from the pty, MaxRead characters at a time, into its buffer.      *)

\* pexpect on a match: before is the text in front of the match, the
\* buffer keeps what follows it
Matched(o, pattern) ==
    LET i == Find(pattern, o.buffer)
    IN [o EXCEPT !.before = SubSeq(o.buffer, 1, i - 1),
                 !.buffer = SubSeq(o.buffer, i + Len(pattern), Len(o.buffer))]

\* a timeout that throws away what is buffered
TimedOutDiscards(o) == [o EXCEPT !.before = o.buffer, !.buffer = <<>>]

\* pexpect on TIMEOUT: before is all that is buffered, the buffer stays
TimedOut(o) == [o EXCEPT !.before = o.buffer]

\* pexpect on EOF: before is all that is buffered, the buffer is emptied
AtEof(o) == [o EXCEPT !.before = o.buffer, !.buffer = <<>>]

\* expect() has returned `outcome` with the session now `o2`: a buffer-mode
\* session still has its _update_buffer to do.  echoed: the child has taken
\* and echoed all that was typed, and expect() has read all it printed.
\* gathered: what this expect() has read, `from` being the length of what
\* expect() calls had read before it.  late: see Late.
ExpectReturned(id, pattern, sent, from, late, o2, outcome) ==
    LET res == [op |-> "expect_text", id |-> id, status |-> outcome,
                sent |-> sent, late |-> late,
                echoed |-> o2.alive /\ o2.inq = <<>> /\ o2.pending = <<>>,
                gathered |-> Drop(o2.seen, from)]
    IN /\ sessions' = Put(sessions, id, o2)
       /\ UNCHANGED <<orphans, history>>
       /\ IF o2.mode = "buffer"
          THEN /\ pc' = [op |-> "expect_text", step |-> "drain", id |-> id,
                         pattern |-> pattern, sent |-> sent, from |-> from,
                         late |-> late, reads |-> TRUE, res |-> res]
               /\ result' = Running
          ELSE /\ pc' = Idle
               /\ result' = res

\* how a call of expect_text finds the child of o: "no" when it is running,
\* and when it has exited "hit" or "miss" as the pattern occurs or not in
\* what is buffered and what is left to read
Late(o, pattern) ==
    IF o.alive THEN "no"
    ELSE IF Contains(pattern, o.buffer \o o.pending) THEN "hit" ELSE "miss"

\* pattern and text arguments
TextInputs(chars) == {<<c>> : c \in chars}

\* the call, and expect()'s search of the data it already holds.  sent: the
\* pattern is the text the call before this one sent to the session.
expect_text(pattern, id) ==
    /\ pc = Idle
    /\ IF ~Has(id)
       THEN /\ result' = NotFound("expect_text", id)
            /\ UNCHANGED <<sessions, orphans, pc, history>>
       ELSE LET sent == /\ result.op = "send_keys" /\ result.status = "ok"
                        /\ result.id = id /\ result.data = pattern
            IN IF Find(pattern, Get(id).buffer) # 0
               THEN ExpectReturned(id, pattern, sent, Len(Get(id).seen),
                                   Late(Get(id), pattern),
                                   Matched(Get(id), pattern), "matched")
               ELSE /\ pc' = [op |-> "expect_text", step |-> "wait", id |-> id,
                              pattern |-> pattern, sent |-> sent,
                              from |-> Len(Get(id).seen),
                              late |-> Late(Get(id), pattern), reads |-> FALSE,
                              res |-> Running]
                    /\ result' = Running
                    /\ UNCHANGED <<sessions, orphans, history>>

\* one read of expect()'s loop, and the search of the grown buffer
expect_read ==
    /\ pc.op = "expect_text" /\ pc.step = "wait"
    /\ Get(pc.id).pending # <<>>
    /\ LET o == Get(pc.id)
           incoming == Take(o.pending, MaxRead)
           o1 == [o EXCEPT !.pending = Drop(o.pending, MaxRead),
                           !.buffer = o.buffer \o incoming,
                           !.seen = o.seen \o incoming]
       IN IF Find(pc.pattern, o1.buffer) # 0
          THEN ExpectReturned(pc.id, pc.pattern, pc.sent, pc.from, pc.late,
                              Matched(o1, pc.pattern), "matched")
          ELSE /\ sessions' = Put(sessions, pc.id, o1)
               /\ pc' = [pc EXCEPT !.reads = TRUE]
               /\ UNCHANGED <<orphans, result, history>>

\* the time is up: nothing arrived in the time left, or the time went by
\* while reading
expect_timeout ==
    /\ pc.op = "expect_text" /\ pc.step = "wait"
    /\ (Get(pc.id).pending = <<>> /\ Get(pc.id).alive) \/ pc.reads
    /\ ExpectReturned(pc.id, pc.pattern, pc.sent, pc.from, pc.late,
                      TimedOut(Get(pc.id)), "timeout")

\* an end of output that is reported as a match
expect_eof_matched ==
    /\ pc.op = "expect_text" /\ pc.step = "wait"
    /\ Get(pc.id).pending = <<>> /\ ~Get(pc.id).alive
    /\ ExpectReturned(pc.id, pc.pattern, pc.sent, pc.from, pc.late,
                      AtEof(Get(pc.id)), "matched")

\* the child has exited and all it printed has been read
expect_eof ==
    /\ pc.op = "expect_text" /\ pc.step = "wait"
    /\ Get(pc.id).pending = <<>> /\ ~Get(pc.id).alive
    /\ ExpectReturned(pc.id, pc.pattern, pc.sent, pc.from, pc.late,
                      AtEof(Get(pc.id)), "eof")

\* "Update buffer if in buffer mode", and the return
expect_drain ==
    /\ pc.op = "expect_text" /\ pc.step = "drain"
    /\ sessions' = Put(sessions, pc.id, UpdateBuffer(Get(pc.id)))
    /\ result' = pc.res
    /\ pc' = Idle
    /\ UNCHANGED <<orphans, history>>

----------------------------------------------------------------------------
(* The buffer-only queries.  Each ScreenSession getter drains first. *)

\* ScreenSession.get_char_at after its drain: "" outside the screen
GetCharAt(scr, row, col) ==
    IF 0 <= row /\ row < scr.lines /\ 0 <= col /\ col < scr.columns
    THEN <<CellData(scr.rows[row + 1], col)>>
    ELSE <<>>

\* ScreenSession.get_buffer_line after its drain: the data of the cells of
\* the row's dict, in the dict's order
GetBufferLine(scr, row) ==
    IF 0 <= row /\ row < scr.lines
    THEN [k \in 1..Len(scr.rows[row + 1]) |-> scr.rows[row + 1][k][2]]
    ELSE <<>>

\* line[col_start:col_end] for indexes >= 0
Slice(line, col_start, col_end) == SubSeq(line, col_start + 1, Min(col_end, Len(line)))

\* rows: two of the small screen, and one below it
RowInputs == {0, 1, 2}
\* (row, col): on the small screen, right of it and below it
PositionInputs == {<<0, 0>>, <<1, 0>>, <<0, 1>>, <<2, 0>>}
\* (row_start, row_end): one row, two rows, none
RowRangeInputs == {<<0, 1>>, <<0, 2>>, <<1, 1>>}
\* the text of a position assertion: one cell, and two with a space last
PositionTexts == {<<"a">>, <<"a", " ">>}

\* assert_at_position up to its loop over the characters of text
assert_at_position(text, row, col, id) ==
    /\ pc = Idle
    /\ UNCHANGED <<sessions, orphans, history>>
    /\ IF ~Has(id)
       THEN /\ result' = NotFound("assert_at_position", id)
            /\ UNCHANGED pc
       ELSE IF Get(id).mode # "buffer"
       THEN /\ result' = ModeError("assert_at_position", id)
            /\ UNCHANGED pc
       ELSE /\ pc' = [op |-> "assert_at_position", id |-> id,
                      text |-> text, row |-> row, col |-> col, i |-> 0,
                      actual_text |-> <<>>, first |-> -1]
            /\ result' = Running

\* one turn of the loop: actual_text += session.get_char_at(row, col + i);
\* after the last one the comparison and the return.  first: how much the
\* screen had been fed at the first turn; steady: no turn after the first
\* fed it more.
assert_at_position_char ==
    /\ pc.op = "assert_at_position"
    /\ LET o == UpdateBuffer(Get(pc.id))
           actual == pc.actual_text \o GetCharAt(o.screen, pc.row, pc.col + pc.i)
           first == IF pc.i = 0 THEN Len(o.fed) ELSE pc.first
       IN /\ sessions' = Put(sessions, pc.id, o)
          /\ UNCHANGED <<orphans, history>>
          /\ IF pc.i + 1 < Len(pc.text)
             THEN /\ pc' = [pc EXCEPT !.i = pc.i + 1, !.actual_text = actual,
                                      !.first = first]
                  /\ UNCHANGED result
             ELSE /\ pc' = Idle
                  /\ result' = [op |-> "assert_at_position", id |-> pc.id,
                                status |-> "ok",
                                text |-> pc.text, row |-> pc.row, col |-> pc.col,
                                steady |-> (Len(o.fed) = first),
                                passed |-> (Strip(actual) = Strip(pc.text))]

get_cursor_position(id) ==
    /\ pc = Idle
    /\ UNCHANGED <<orphans, pc, history>>
    /\ IF ~Has(id)
       THEN /\ result' = NotFound("get_cursor_position", id)
            /\ UNCHANGED sessions
       ELSE IF Get(id).mode # "buffer"
       THEN /\ result' = ModeError("get_cursor_position", id)
            /\ UNCHANGED sessions
       ELSE LET o == UpdateBuffer(Get(id))
            IN /\ sessions' = Put(sessions, id, o)
               /\ result' = [op |-> "get_cursor_position", id |-> id, status |-> "ok",
                             row |-> o.screen.y, col |-> o.screen.x]

\* col_end: a number, or -1 for None ("end of line": the screen width)
ColEndInputs == {-1, 1}

\* get_screen_region up to its loop over the rows
get_screen_region(row_start, row_end, col_start, col_end, id) ==
    /\ pc = Idle
    /\ UNCHANGED <<sessions, orphans, history>>
    /\ IF ~Has(id)
       THEN /\ result' = NotFound("get_screen_region", id)
            /\ UNCHANGED pc
       ELSE IF Get(id).mode # "buffer"
       THEN /\ result' = ModeError("get_screen_region", id)
            /\ UNCHANGED pc
       ELSE IF row_start >= row_end
       THEN /\ result' = [op |-> "get_screen_region", id |-> id, status |-> "ok",
                          region_lines |-> <<>>, steady |-> TRUE]
            /\ UNCHANGED pc
       ELSE /\ pc' = [op |-> "get_screen_region", id |-> id,
                      row |-> row_start, row_end |-> row_end, col_start |-> col_start,
                      col_end |-> IF col_end = -1 THEN Get(id).dimensions[1]
                                                  ELSE col_end,
                      region_lines |-> <<>>, first |-> -1]
            /\ result' = Running

\* one turn of the loop: line = session.get_buffer_line(row), sliced; after
\* the last row the return.  first: how much the screen had been fed at the
\* first turn; steady: no turn after the first fed it more.
get_screen_region_row ==
    /\ pc.op = "get_screen_region"
    /\ LET o == UpdateBuffer(Get(pc.id))
           line == GetBufferLine(o.screen, pc.row)
           lines == Append(pc.region_lines, Slice(line, pc.col_start, pc.col_end))
           first == IF pc.region_lines = <<>> THEN Len(o.fed) ELSE pc.first
       IN /\ sessions' = Put(sessions, pc.id, o)
          /\ UNCHANGED <<orphans, history>>
          /\ IF pc.row + 1 < pc.row_end
             THEN /\ pc' = [pc EXCEPT !.row = pc.row + 1, !.region_lines = lines,
                                      !.first = first]
                  /\ UNCHANGED result
             ELSE /\ pc' = Idle
                  /\ result' = [op |-> "get_screen_region", id |-> pc.id,
                                status |-> "ok", region_lines |-> lines,
                                steady |-> (Len(o.fed) = first)]

get_line(row, id) ==
    /\ pc = Idle
    /\ UNCHANGED <<orphans, pc, history>>
    /\ IF ~Has(id)
       THEN /\ result' = NotFound("get_line", id)
            /\ UNCHANGED sessions
       ELSE IF Get(id).mode # "buffer"
       THEN /\ result' = ModeError("get_line", id)
            /\ UNCHANGED sessions
       ELSE LET o == UpdateBuffer(Get(id))
            IN /\ sessions' = Put(sessions, id, o)
               /\ result' = [op |-> "get_line", id |-> id, status |-> "ok",
                             line |-> GetBufferLine(o.screen, row)]

----------------------------------------------------------------------------
(* The system *)

Init ==
    /\ sessions = <<>>
    /\ orphans = 0
    /\ pc = Idle
    /\ result = [op |-> "none"]
    /\ history = [id \in Ids |-> NoHistory]

\* What the callers and the children of a run may do: the session ids, the
\* launch arguments and the characters in use, and the output the children
\* produce in all.
OneSession ==
    [ids |-> {"default"}, commands |-> Commands, dimensions |-> DimensionInputs,
     modes |-> Modes, chars |-> Chars, budget |-> MaxEmit]

TwoSessions ==
    [ids |-> Ids, commands |-> Commands,
     dimensions |-> {<<Num(1), Num(2)>>, <<Num(2), Junk>>},
     modes |-> {"stream", "buffer"}, chars |-> {"a"}, budget |-> MaxEmitTwo]

Child(U) ==
    \E k \in 1..Len(Objects) :
        \/ \E c \in U.chars : Produced < U.budget /\ ChildEmit(k, c)
        \/ ChildEcho(k)
        \/ ChildExit(k)

Launch(U) ==
    \E command \in U.commands, id \in U.ids, dimensions \in U.dimensions,
       mode \in U.modes :
        launch_tui(command, id, dimensions, mode)

Send(U) ==
    \E id \in U.ids :
        \/ \E keys \in KeyInputs(U.chars) :
              (Has(id) => Produced < U.budget) /\ send_keys(keys, id)
        \/ \E key \in CtrlKeyInputs :
              (Has(id) => Produced < U.budget) /\ send_ctrl(key, id)

Capture(U) ==
    \E id \in U.ids, use_buffer \in UseBufferInputs :
        \/ \E include_ansi \in BOOLEAN : capture_screen(id, include_ansi, use_buffer)
        \/ \E text \in TextInputs(U.chars) : assert_contains(text, id, use_buffer)

Expect(U) == \E id \in U.ids, pattern \in TextInputs(U.chars) : expect_text(pattern, id)

Query(U) ==
    \E id \in U.ids :
        \/ \E text \in PositionTexts, at \in PositionInputs :
              assert_at_position(text, at[1], at[2], id)
        \/ get_cursor_position(id)
        \/ \E rows \in RowRangeInputs, col_end \in ColEndInputs :
              get_screen_region(rows[1], rows[2], 0, col_end, id)
        \/ \E row \in RowInputs : get_line(row, id)

Close(U) == \E id \in U.ids : close_session(id)

Next(U) ==
    \/ Child(U)
    \/ Launch(U)
    \/ launch_tui_register
    \/ Send(U)
    \/ send_drain
    \/ Capture(U)
    \/ Expect(U)
    \/ expect_read
    \/ expect_timeout
    \/ expect_eof
    \/ expect_drain
    \/ Query(U)
    \/ assert_at_position_char
    \/ get_screen_region_row
    \/ Close(U)
    \/ list_sessions

\* the server with one session id in use
Spec == Init /\ [][Next(OneSession)]_vars

\* the server with two session ids in use
TwoSpec == Init /\ [][Next(TwoSessions)]_vars

\* the server with one session id in use, where a handler that has started
\* runs on: expect() keeps reading until it matches, its time is up or the
\* output ends, and the handler then returns
WaitSpec ==
    /\ Init /\ [][Next(OneSession)]_vars
    /\ WF_vars(expect_read \/ expect_timeout \/ expect_eof)
    /\ WF_vars(expect_drain)
----------------------------------------------------------------------------
(* Properties.  Each is stated over the states and steps of Spec or of
   TwoSpec; the state predicates named ..._Reached show that the case a
   property is about occurs. *)

\* the registered session of id is as its constructor left it: open, nothing
\* typed to it, nothing taken by expect(), and on its screen at most the one
\* read of the constructor
Fresh(o) ==
    /\ ~o.closed
    /\ o.inq = <<>> /\ o.before = <<>> /\ o.buffer = <<>> /\ o.seen = <<>>
    /\ o.fed \o o.pending = o.emitted
    /\ Len(o.fed) <= ReadSize
    /\ o.mode # "buffer" => o.fed = <<>>

\* C1: the registry holds at most one session per id; a launch under an id
\* in use closes the session that was there before it registers the new
\* one, so no session leaves the registry with its process open; and the
\* launch returns success with a fresh session registered under the id.
C1_Relaunch ==
    /\ \A j, k \in 1..Len(sessions) : sessions[j].id = sessions[k].id => j = k
    /\ orphans = 0
    /\ (result.op = "launch_tui" /\ result.status = "ok")
          => Has(result.id) /\ Fresh(Get(result.id))
    /\ (result.op = "launch_tui" /\ result.status = "failed")
          => result.error \in {"ValueError", "ExceptionPexpect"}

\* a launch has replaced a session while another id stayed registered
C1_Reached ==
    /\ result.op = "launch_tui" /\ result.status = "ok" /\ result.replaced
    /\ Len(sessions) = 2
    /\ Get(result.id).mode = "buffer"

\* what has been read from the pty of o so far, by whichever reader
ReadSoFar(o) == Take(o.emitted, Len(o.emitted) - Len(o.pending))

\* C2: in a buffer-mode session every byte read from the child is both
\* appended to the stream buffer (it goes through expect) and fed to the
\* screen, whichever operation read it.
C2_DualView ==
    \A k \in 1..Len(sessions) :
        LET o == sessions[k].session
        IN o.mode = "buffer" => o.seen = ReadSoFar(o) /\ o.fed = ReadSoFar(o)

\* C3: when send_keys has sent a text to a session and the next call expects
\* that same text, and the child has echoed it within the wait, expect_text
\* returns matched, in stream mode and in buffer mode alike.
C3_RoundTrip ==
    (result.op = "expect_text" /\ result.status # "not_found"
        /\ result.sent /\ result.echoed)
       => result.status = "matched"

\* C4: a buffer capture that follows another of the same session, with no
\* output of the child and no call between the two, returns the same text.
C4_Idempotent ==
    (result.op = "capture_screen" /\ result.status = "ok"
        /\ result.label = "buffer" /\ result.again)
       => result.output = result.previous

\* the screen of o had it been fed the first n characters its child printed
ScreenAfter(o, n) ==
    Display(Feed(NewScreen(o.dimensions[1], o.dimensions[2]), Take(o.emitted, n)))

\* C5: the text of a buffer capture shows all that the child had printed
\* when the call started.
C5_DrainComplete ==
    (result.op = "capture_screen" /\ result.status = "ok"
        /\ result.label = "buffer")
       => result.output = ScreenAfter(Get(result.id), result.at)

\* a call, with arguments of U, of a handler that takes session id `id` and
\* is not launch_tui
CallOn(U, id) ==
    \/ \E keys \in KeyInputs(U.chars) : send_keys(keys, id)
    \/ \E key \in CtrlKeyInputs : send_ctrl(key, id)
    \/ \E include_ansi \in BOOLEAN, use_buffer \in UseBufferInputs :
          capture_screen(id, include_ansi, use_buffer)
    \/ \E text \in TextInputs(U.chars), use_buffer \in UseBufferInputs :
          assert_contains(text, id, use_buffer)
    \/ \E pattern \in TextInputs(U.chars) : expect_text(pattern, id)
    \/ \E text \in PositionTexts, at \in PositionInputs :
          assert_at_position(text, at[1], at[2], id)
    \/ get_cursor_position(id)
    \/ \E rows \in RowRangeInputs, col_end \in ColEndInputs :
          get_screen_region(rows[1], rows[2], 0, col_end, id)
    \/ \E row \in RowInputs : get_line(row, id)
    \/ close_session(id)

\* the last call was made on a session id after close_session had closed
\* the session of that id
AfterClose ==
    /\ result.op \notin {"none", "running", "launch_tui", "list_sessions"}
    /\ history[result.id].closed
    /\ ~(result.op = "close_session" /\ result.status = "ok")

\* C6 as the specification words it: once close_session has closed the
\* session of an id, every later call on that id, until a launch under it,
\* fails with the closed-session error.
C6_ClosedError == AfterClose => result.status = "session_closed"

\* C6: once close_session has closed the session of an id, the id stays out
\* of the registry until a launch under it, and every call on it until then
\* returns the not-found failure with no session, no process and no handler
\* position touched.
C6_ClosedNotFound ==
    /\ [](\A id \in Ids : history[id].closed => ~Has(id))
    /\ [](AfterClose => result.status = "not_found")
    /\ [][\A id \in Ids :
            (history[id].closed /\ CallOn(OneSession, id))
               => /\ result' = [op |-> result'.op, id |-> id, status |-> "not_found"]
                  /\ UNCHANGED <<sessions, orphans, pc, history>>]_vars

\* a call on a closed id, other than a second close, has returned
C6_Reached ==
    /\ AfterClose
    /\ result.op = "send_keys"
    /\ sessions = <<>>

\* C7: a call of any handler but launch_tui on an id that is not in the
\* registry returns the not-found failure and leaves the registry, every
\* session in it and every process as they were; and a launch under an id
\* on which close_session has just returned not-found registers a fresh
\* session and returns success.
C7_UnknownId ==
    /\ [][\A id \in Ids :
            (~Has(id) /\ CallOn(TwoSessions, id))
               => /\ result' = [op |-> result'.op, id |-> id, status |-> "not_found"]
                  /\ UNCHANGED <<sessions, orphans, pc>>]_vars
    /\ [][\A id \in Ids, dimensions \in TwoSessions.dimensions,
             mode \in TwoSessions.modes :
            (/\ result = NotFound("close_session", id)
             /\ ParseDimensions(dimensions).ok
             /\ launch_tui("app", id, dimensions, mode))
               => IF mode = "buffer"
                  THEN pc'.op = "launch_tui" /\ pc'.id = id /\ Fresh(pc'.session)
                  ELSE /\ result'.op = "launch_tui" /\ result'.status = "ok"
                       /\ Has(id)' /\ Fresh(Get(id))']_vars
    /\ [][\A id \in Ids :
            (pc.op = "launch_tui" /\ pc.id = id /\ launch_tui_register)
               => /\ result'.op = "launch_tui" /\ result'.status = "ok"
                  /\ Has(id)' /\ Fresh(Get(id))']_vars

\* close_session has returned not-found for an id that was never closed,
\* while another id has a session
C7_Reached ==
    /\ result = NotFound("close_session", "s2")
    /\ ~history["s2"].closed
    /\ Len(sessions) = 1

\* C8: the mode error of a buffer-only handler names the mode the session
\* was created with.
C8_ModeNamed ==
    (result.op \notin {"none", "running"} /\ result.status = "mode_error")
       => result.named = Get(result.id).mode

\* C9: every registered session has mode stream or buffer and a width and a
\* height of at least 1.
C9_Validated ==
    \A k \in 1..Len(sessions) :
        LET o == sessions[k].session
        IN /\ o.mode \in {"stream", "buffer"}
           /\ o.dimensions[1] >= 1 /\ o.dimensions[2] >= 1

\* C10: the text a stream capture returns with the control codes included
\* starts with the text the stream capture before it returned for the
\* session.
C10_AppendOnly ==
    (result.op = "capture_screen" /\ result.status = "ok"
        /\ result.label = "stream" /\ result.include_ansi)
       => IsPrefix(result.earlier, result.output)

\* t ends with s
IsSuffix(s, t) == Len(s) <= Len(t) /\ SubSeq(t, Len(t) - Len(s) + 1, Len(t)) = s

\* the last call was an expect_text that timed out
TimedOutOn(id) ==
    /\ result.op = "expect_text" /\ result.status = "timeout" /\ result.id = id

\* C11: when expect_text has timed out, what it read during the wait is
\* still buffered and is what get_stream_output gives; a stream capture
\* that follows returns it, and an expect_text that follows with a pattern
\* that occurs in it matches.
C11_TimeoutKeeps ==
    /\ [](\A id \in Ids :
            TimedOutOn(id)
               => /\ IsSuffix(result.gathered, Get(id).buffer)
                  /\ Get(id).before = Get(id).buffer)
    /\ [][\A id \in Ids, use_buffer \in UseBufferInputs :
            (/\ TimedOutOn(id)
             /\ ~WantsBuffer(Get(id), use_buffer)
             /\ capture_screen(id, TRUE, use_buffer))
               => /\ result'.label = "stream"
                  /\ IsSuffix(result.gathered, result'.output)]_vars
    /\ [][\A id \in Ids, pattern \in TextInputs(OneSession.chars) :
            (/\ TimedOutOn(id)
             /\ Contains(pattern, result.gathered)
             /\ expect_text(pattern, id))
               => IF Get(id).mode = "buffer"
                  THEN pc'.step = "drain" /\ pc'.res.status = "matched"
                  ELSE result'.status = "matched"]_vars

\* an expect_text has timed out after reading output of the child
C11_Reached ==
    /\ result.op = "expect_text" /\ result.status = "timeout"
    /\ result.gathered # <<>>
    /\ Get(result.id).mode = "stream"

\* the registry before and after a step has the same ids in the same
\* places, each with the session object it had: same mode and dimensions,
\* still open, its history continued
SameEntries ==
    /\ Len(sessions') = Len(sessions)
    /\ \A k \in 1..Len(sessions) :
          LET o == sessions[k].session
              o2 == sessions'[k].session
          IN /\ sessions'[k].id = sessions[k].id
             /\ o2.mode = o.mode /\ o2.dimensions = o.dimensions
             /\ ~o2.closed
             /\ IsPrefix(o.emitted, o2.emitted)
             /\ IsPrefix(o.fed, o2.fed) /\ IsPrefix(o.seen, o2.seen)

\* the child of the buffer-mode session of id has exited and all it
\* printed has been read
Finished(id) ==
    /\ Has(id) /\ Get(id).mode = "buffer"
    /\ ~Get(id).alive /\ Get(id).pending = <<>>

\* C12: only close_session and launch_tui remove or replace a registry
\* entry: every other step (of a child, a send, a wait, a capture, a query)
\* keeps the entries; and the buffer queries of a session whose child has
\* exited keep returning the screen as it last was.
C12_OnlyCloseRemoves ==
    /\ [][SameEntries
            \/ (Launch(TwoSessions) \/ launch_tui_register \/ Close(TwoSessions))]_vars
    /\ [][\A id \in Ids :
            /\ \A row \in RowInputs :
                  (Finished(id) /\ get_line(row, id))
                     => /\ result'.status = "ok"
                        /\ result'.line = GetBufferLine(Get(id).screen, row)
                        /\ sessions' = sessions
            /\ \A include_ansi \in BOOLEAN :
                  (Finished(id) /\ capture_screen(id, include_ansi, "None"))
                     => /\ result'.status = "ok"
                        /\ result'.output = Display(Get(id).screen)
                        /\ sessions' = sessions
            /\ (Finished(id) /\ get_cursor_position(id))
                  => /\ result'.status = "ok"
                     /\ result'.row = Get(id).screen.y
                     /\ result'.col = Get(id).screen.x
                     /\ sessions' = sessions]_vars

\* a line query has returned a written line of a session whose child had
\* exited
C12_Reached ==
    /\ result.op = "get_line" /\ result.status = "ok"
    /\ result.line # <<>>
    /\ Finished(result.id)

\* a step of a handler called with session id `id`: its call, or a later
\* step of it
HandlerStepOn(U, id) ==
    \/ CallOn(U, id)
    \/ \E command \in U.commands, dimensions \in U.dimensions, mode \in U.modes :
          launch_tui(command, id, dimensions, mode)
    \/ /\ pc.op # "idle" /\ pc.id = id
       /\ \/ launch_tui_register
          \/ send_drain
          \/ expect_read \/ expect_timeout \/ expect_eof \/ expect_drain
          \/ assert_at_position_char
          \/ get_screen_region_row

\* the registry entry of id and the session behind it are the same before
\* and after a step
EntryKept(id) ==
    /\ Has(id)' = Has(id)
    /\ Has(id) => Get(id)' = Get(id)

\* C13: a step of a handler called with one session id leaves the registry
\* entry and the session of every other id as they were; and while a
\* session is registered its mode and dimensions stay as created.
C13_Independent ==
    /\ [][\A a, b \in Ids :
            a # b => (EntryKept(b) \/ ~HandlerStepOn(TwoSessions, a))]_vars
    /\ [][\A id \in Ids :
            \/ ~(Has(id) /\ Has(id)')
            \/ /\ Get(id)'.mode = Get(id).mode
               /\ Get(id)'.dimensions = Get(id).dimensions
            \/ \E command \in TwoSessions.commands,
                  dimensions \in TwoSessions.dimensions,
                  mode \in TwoSessions.modes :
                  launch_tui(command, id, dimensions, mode)]_vars

\* a wait on one session has matched output of its child while a
\* buffer-mode session is registered under the other id
C13_Reached ==
    /\ result.op = "expect_text" /\ result.status = "matched"
    /\ result.id = "default"
    /\ Has("s2") /\ Get("s2").mode = "buffer"

IdsOf(reg) == [k \in 1..Len(reg) |-> reg[k].id]

\* a sequence of ids without id
Without(ids, id) == SelectSeq(ids, LAMBDA x : x # id)

\* C15: list_sessions returns the (id, mode) pairs of the registry, one per
\* id, in the order of the registry, and that order is the order of
\* insertion: a launch that succeeds puts its id last, taking out the entry
\* the id had; a close takes its id out; nothing else changes the order.
C15_Listing ==
    /\ [](result.op = "list_sessions"
            => result.listing = [k \in 1..Len(sessions) |->
                                   <<sessions[k].id, sessions[k].session.mode>>])
    /\ [](\A j, k \in 1..Len(sessions) : sessions[j].id = sessions[k].id => j = k)
    /\ [][\/ IdsOf(sessions') = IdsOf(sessions)
          \/ Launch(TwoSessions) \/ launch_tui_register \/ Close(TwoSessions)]_vars
    /\ [][\A id \in Ids :
            /\ (/\ pc = Idle /\ (result' = Running \/ result'.op = "launch_tui")
                /\ \E command \in TwoSessions.commands,
                      dimensions \in TwoSessions.dimensions,
                      mode \in TwoSessions.modes :
                      launch_tui(command, id, dimensions, mode))
                  => IdsOf(sessions') =
                        IF result' = Running
                        THEN Without(IdsOf(sessions), id)
                        ELSE IF result'.status = "ok"
                        THEN Append(Without(IdsOf(sessions), id), id)
                        ELSE IF result'.error = "ValueError"
                        THEN IdsOf(sessions)
                        ELSE Without(IdsOf(sessions), id)
            /\ (pc.op = "launch_tui" /\ pc.id = id /\ launch_tui_register)
                  => IdsOf(sessions') = Append(Without(IdsOf(sessions), id), id)
            /\ close_session(id)
                  => IdsOf(sessions') = Without(IdsOf(sessions), id)]_vars

\* a listing of two sessions has been returned, the id launched first
\* listed first
C15_Reached ==
    /\ result.op = "list_sessions"
    /\ Len(result.listing) = 2
    /\ result.listing[1][1] = "s2" /\ result.listing[2][1] = "default"

\* the cells (row, col), (row, col + 1), ... of scr are on the screen and
\* hold the characters of text
CellsHold(scr, text, row, col) ==
    \A i \in 1..Len(text) :
        /\ 0 <= row /\ row < scr.lines
        /\ 0 <= col + i - 1 /\ col + i - 1 < scr.columns
        /\ CellData(scr.rows[row + 1], col + i - 1) = text[i]

\* C16: assert_at_position on a buffer-mode session passes if and only if
\* the cells at (row, col) .. (row, col + len(text) - 1) are on the screen
\* and hold exactly the characters of text (the screen being the same at
\* every cell read).
C16_ExactCells ==
    (result.op = "assert_at_position" /\ result.status = "ok" /\ result.steady)
       => (result.passed <=>
              CellsHold(Get(result.id).screen, result.text, result.row, result.col))

\* C17: a region query, and likewise a position assertion, reads all its
\* rows or cells from one and the same state of the screen: after the
\* drain before its first read no output of the child reaches the screen
\* until the query returns.
C17_OneSnapshot ==
    (result.op \in {"get_screen_region", "assert_at_position"}
        /\ result.status = "ok")
       => result.steady

\* ch is a letter, of either case
IsLetter(ch) == \E n \in 1..26 : LowerCase[n] = ch \/ UpperCase[n] = ch

\* the control character of a letter: the one whose code is the place of
\* the letter in the alphabet
ControlOf(ch) == CtrlChars[CHOOSE n \in 1..26 : LowerCase[n] = ch \/ UpperCase[n] = ch]

\* C18: send_ctrl with a letter, of either case, writes to the process of
\* the session the one control character of that letter and reports
\* success (writing to a child that has exited may fail instead); with a
\* key that is not one character, or whose code comes out below 0, it
\* writes nothing, reports a failure and leaves the session as it is.
C18_ControlKey ==
    /\ [][\A id \in Ids, key \in CtrlKeyInputs :
            (/\ Has(id) /\ pc = Idle
             /\ (pc'.op = "send_ctrl" \/ result'.op = "send_ctrl")
             /\ send_ctrl(key, id))
               => IF Len(key) = 1 /\ IsLetter(key[1])
                  THEN \/ /\ ~Get(id).alive
                          /\ result'.op = "send_ctrl"
                          /\ result'.status = "failed" /\ sessions' = sessions
                       \/ /\ Get(id)'.inq =
                                IF Get(id).alive
                                THEN Append(Get(id).inq, ControlOf(key[1]))
                                ELSE Get(id).inq
                          /\ IF Get(id).mode = "buffer"
                             THEN /\ pc'.op = "send_ctrl"
                                  /\ pc'.data = <<ControlOf(key[1])>>
                             ELSE /\ result'.op = "send_ctrl"
                                  /\ result'.status = "ok"
                                  /\ result'.data = <<ControlOf(key[1])>>
                  ELSE /\ result'.status = "failed"
                       /\ sessions' = sessions /\ pc' = pc]_vars
    /\ [][(pc.op = "send_ctrl" /\ send_drain)
            => /\ result'.op = "send_ctrl" /\ result'.status = "ok"
               /\ result'.data = pc.data]_vars

\* send_ctrl has sent the control character of an upper-case letter
C18_Reached ==
    /\ result.op = "send_ctrl" /\ result.status = "ok"
    /\ result.data = <<"^Z">>

\* C19: close_session and launch_tui close a session before they delete its
\* registry entry, so no session leaves the registry with its process open;
\* and a launch under an id in use whose command cannot be started reports
\* a failure and leaves the id without a session, the session it had being
\* closed and gone.
C19_CloseBeforeRemoval ==
    /\ [](orphans = 0)
    /\ []((result.op = "launch_tui" /\ result.status = "failed"
             /\ result.error = "ExceptionPexpect")
            => ~Has(result.id))
    /\ [][\A id \in Ids :
            /\ (Has(id) /\ close_session(id))
                  => /\ ~Has(id)' /\ orphans' = orphans
                     /\ result'.status = "ok"
            /\ \A dimensions \in TwoSessions.dimensions, mode \in TwoSessions.modes :
                  (/\ Has(id) /\ pc = Idle /\ result'.op = "launch_tui"
                   /\ ParseDimensions(dimensions).ok
                   /\ launch_tui("missing", id, dimensions, mode))
                     => /\ result'.status = "failed" /\ result'.replaced
                        /\ ~Has(id)' /\ orphans' = orphans
                        /\ \A other \in Ids \ {id} : EntryKept(other)]_vars

\* a launch under an id in use has failed to start its command, and the id
\* has no session while the other id has one
C19_Reached ==
    /\ result.op = "launch_tui" /\ result.status = "failed"
    /\ result.error = "ExceptionPexpect" /\ result.replaced
    /\ ~Has(result.id)
    /\ Len(sessions) = 1

====
